---- MODULE Spec2Model ----
(***************************************************************************)
(* Todoist ("Origin") <-> Habitica ("Mirror") reconciliation engine.       *)
(* The model follows src/online sync/main.py, the runnable variant of the  *)
(* engine (src/main.py fails at import: line 20 imports TIMEZONE from      *)
(* datetime, and line 276 calls a function that no file defines).          *)
(*                                                                         *)
(* Strings are sequences of tokens.  The literal "[TodoistID:" is one      *)
(* token, "]" is one token, a newline is one token; every other token is   *)
(* an ordinary character.  IDs are strings too.                            *)
(***************************************************************************)
EXTENDS Integers, Sequences, FiniteSets, TLC

\* ---------------------------------------------------------------- bounds
\* Number of Mirror task IDs the Mirror service can hand out.
MaxMirror == 2

\* ------------------------------------------------------------- constants
TAG == "[TodoistID:"
RB  == "]"
NL  == "\n"

\* The Origin task IDs of the model, in the order the Origin API lists them.
TidOrder == << <<"1">>, <<"2">> >>
TIDs == {TidOrder[i] : i \in 1..Len(TidOrder)}
HIDs == 1..MaxMirror
\* An Origin task's due date: today's date in the reference timezone, or
\* anything else (another date, or no due date at all).
Dues == {"today", "other"}

\* Task.description of an Origin task (free text without a tag here).
Description(tid) == IF tid = <<"1">> THEN <<>> ELSE <<"x">>

VARIABLES
    origin,   \* Origin service: tid -> [status, due]
    mirror,   \* Mirror service: the todo list, a sequence of task records
    nextHid,  \* Mirror service: number of task IDs handed out so far
    file,     \* Link Store: the JSON state file
    last,     \* what the last sync cycle read, called and wrote (history);
              \* NoCycle once a user has acted since
    probe,    \* arguments and result of a helper function applied on its own
    runs      \* invocations of the cycle that overlap: what each has read

vars == <<origin, mirror, nextHid, file, last, probe, runs>>

\* ------------------------------------------------------ sequence helpers
Range(s) == {s[i] : i \in 1..Len(s)}

RECURSIVE SelectIdx(_, _, _)
\* the first index >= i of s holding a token of set toks, or Len(s)+1
SelectIdx(s, i, toks) ==
    IF i > Len(s) THEN Len(s) + 1
    ELSE IF s[i] \in toks THEN i
    ELSE SelectIdx(s, i + 1, toks)

Contains(s, tok) == SelectIdx(s, 1, {tok}) <= Len(s)

\* ------------------------------------------------------------ tag format
\* variant: everything after the first tag prefix, not cut at ']'
ParseTag_toEnd(notes) ==
    SubSeq(notes, SelectIdx(notes, 1, {TAG}) + 1, Len(notes))
\* notes.split('[TodoistID:')[1].split(']')[0]: the text after the first
\* tag prefix, cut at the next tag prefix, then cut at the first ']'.
ParseTag(notes) ==
    LET a == SelectIdx(notes, 1, {TAG})
        b == SelectIdx(notes, a + 1, {TAG, RB})
    IN  SubSeq(notes, a + 1, b - 1)

\* variant: notes that carry the description only, without the link tag
HabiticaNotes_untagged(description, tid) == description
\* f"{task.description if task.description else ''}\n\n[TodoistID:{task.id}]"
HabiticaNotes(description, tid) == description \o <<NL, NL, TAG>> \o tid \o <<RB>>

\* ------------------------------------------------------------ Link Store
NoIds == {}

\* The state file: absent; not JSON; JSON whose top-level value is not an
\* object; "ok", an object whose two fields are lists of IDs (what
\* save_processed_state writes); or "object", an object whose two fields
\* hold any JSON value [t, v, s]: missing, a list of IDs v, a string s, a
\* number, null, an object with keys v, a list with a list in it ("nested").
\* set(x) as Python computes it for a field value that it accepts
ToSet(fv) ==
    IF fv.t = "string" THEN {<<fv.s[i]>> : i \in 1..Len(fv.s)}
    ELSE IF fv.t \in {"list", "object"} THEN fv.v
    ELSE NoIds
\* set(x) raises TypeError
SetRaises(fv) == fv.t \in {"number", "null", "nested"}

\* variant: every cycle starts from two empty sets
load_processed_state_empty(f) == [pt |-> NoIds, ph |-> NoIds]
\* load_processed_state: the two sets of the file, or two empty sets when
\* the file is absent or an exception is caught while reading it.
load_processed_state(f) ==
    IF f.kind = "ok" THEN [pt |-> f.pt, ph |-> f.ph]
    ELSE IF f.kind = "object" /\ ~SetRaises(f.pt) /\ ~SetRaises(f.ph)
    THEN [pt |-> ToSet(f.pt), ph |-> ToSet(f.ph)]
    ELSE [pt |-> NoIds, ph |-> NoIds]

\* save_processed_state: the file holds exactly the two sets handed over.
save_processed_state(pt, ph) == [kind |-> "ok", pt |-> pt, ph |-> ph]

\* -------------------------------------------------------------- requests
\* A request to a remote service can fail, until failures have stopped for
\* good (probe.fn = "settled"; only the specification of scheduled cycles
\* sets it, and counts there the cycles run since).
RequestsCanFail == probe.fn # "settled"

\* ----------------------------------------------------------------- fetch
OriginTask(tid) ==
    [id |-> tid, due |-> origin[tid].due,
     is_completed |-> (origin[tid].status = "completed"),
     description |-> Description(tid)]

RECURSIVE ListedFrom(_, _)
\* the tasks the Origin API lists from position i on; dueOnly: filter 'due: today'
ListedFrom(i, dueOnly) ==
    IF i > Len(TidOrder) THEN <<>>
    ELSE LET tid == TidOrder[i]
             here == /\ origin[tid].status # "none"
                     /\ (dueOnly => origin[tid].due = "today")
         IN  (IF here THEN <<OriginTask(tid)>> ELSE <<>>) \o ListedFrom(i + 1, dueOnly)

\* get_todoist_tasks: the filtered fetch when it yields tasks; otherwise
\* (it raised, or yielded nothing) the unfiltered fallback; [] when the
\* fallback raises too.
get_todoist_tasks ==
    LET filtered == ListedFrom(1, TRUE)
    IN  (IF filtered # <<>> THEN {[tasks |-> filtered, path |-> "filter"]} ELSE {})
        \cup (IF filtered = <<>> \/ RequestsCanFail
              THEN {[tasks |-> ListedFrom(1, FALSE), path |-> "fallback"]} ELSE {})
        \cup (IF RequestsCanFail THEN {[tasks |-> <<>>, path |-> "failed"]} ELSE {})

\* get_habitica_user_tasks: the Mirror todo list, or [] when the request
\* fails; a 2xx body whose "data" is null makes len(tasks) raise TypeError,
\* which no except clause of the function catches.
get_habitica_user_tasks ==
    {[tasks |-> mirror, failed |-> FALSE, raised |-> FALSE]}
    \cup (IF RequestsCanFail
          THEN {[tasks |-> <<>>, failed |-> TRUE, raised |-> FALSE],
                [tasks |-> <<>>, failed |-> FALSE, raised |-> TRUE]}
          ELSE {})

\* ------------------------------------------------- the map (ordered dict)
MapKeys(m) == {m[i].k : i \in 1..Len(m)}
MapValues(m) == {m[i].v : i \in 1..Len(m)}
MapGet(m, k) == (CHOOSE e \in Range(m) : e.k = k).v
\* variant: an entry already present is kept
MapSet_keepFirst(m, k, v) ==
    IF k \in MapKeys(m) THEN m ELSE Append(m, [k |-> k, v |-> v])
\* map[k] = v
MapSet(m, k, v) ==
    IF k \in MapKeys(m)
    THEN [i \in 1..Len(m) |-> IF m[i].k = k THEN [k |-> k, v |-> v] ELSE m[i]]
    ELSE Append(m, [k |-> k, v |-> v])
MapDel(m, ks) == SelectSeq(m, LAMBDA e : e.k \notin ks)
\* for t_id, mapped_h_id in map.items(): if mapped_h_id == h_id: ... break
NoTid == <<>>
FirstKeyOf(m, hid) ==
    LET i == CHOOSE j \in 1..(Len(m) + 1) :
                 /\ (j <= Len(m) => m[j].v = hid)
                 /\ \A l \in 1..(j - 1) : m[l].v # hid
    IN  IF i <= Len(m) THEN m[i].k ELSE NoTid

\* ------------------------------------------------------- remote clients
\* Each client function is modelled by the set of values it can return.
\* complete_habitica_task: True, or False on a request error.
complete_habitica_task(hid) == IF RequestsCanFail THEN BOOLEAN ELSE {TRUE}
\* delete_habitica_task: True (also on 404), or False on another error.
delete_habitica_task(hid) == IF RequestsCanFail THEN BOOLEAN ELSE {TRUE}
\* complete_todoist_task: True, or False when close_task raises.
complete_todoist_task(tid) == IF RequestsCanFail THEN BOOLEAN ELSE {TRUE}
\* create_habitica_task_from_todoist: the created task's ID, or None (0).
\* The Mirror service refuses the request once its IDs are used up.
\* Raised: a 2xx answer whose JSON body holds no "data" (an intermediary
\* answered, nothing was created) makes habitica_task.get raise
\* AttributeError, which the except clause does not catch.
None == 0
Raised == -1
create_habitica_task_from_todoist(created) ==
    (IF nextHid + created < MaxMirror THEN {nextHid + created + 1} ELSE {})
    \cup (IF RequestsCanFail \/ nextHid + created >= MaxMirror THEN {None} ELSE {})
    \cup (IF RequestsCanFail THEN {Raised} ELSE {})

\* ------------------------------------------------------------ call log
Call(op, tid, hid, ok, notes) ==
    [op |-> op, tid |-> tid, hid |-> hid, ok |-> ok, notes |-> notes]
NoNotes == <<>>

\* ------------------------------------------- Step 1: Origin snapshot views
HasTask(tasks, tid) == \E i \in 1..Len(tasks) : tasks[i].id = tid
GetTask(tasks, tid) == CHOOSE t \in Range(tasks) : t.id = tid
\* client-side filter: tasks that carry a due date, and it equals today
DueToday(task) == task.due = "today"
todoist_tasks_for_today(tasks) == SelectSeq(tasks, DueToday)
IdsOf(tasks) == {tasks[i].id : i \in 1..Len(tasks)}

\* --------------------------------------------- Step 2: map reconciliation
HasTag(ht) == ht.type = "todo" /\ ht.notes # <<>> /\ Contains(ht.notes, TAG)

\* variant: a tag whose Origin ID is in the map already is passed over
ReconcileOne_keepFirst(ht, acc) ==
    IF HasTag(ht) /\ ParseTag(ht.notes) # <<>>
    THEN [map   |-> MapSet_keepFirst(acc.map, ParseTag(ht.notes), ht.id),
          valid |-> acc.valid \cup {ht.id}]
    ELSE acc
\* one Mirror task of the scan
ReconcileOne(ht, acc) ==
    IF HasTag(ht) /\ ParseTag(ht.notes) # <<>>
    THEN [map   |-> MapSet(acc.map, ParseTag(ht.notes), ht.id),
          valid |-> acc.valid \cup {ht.id}]
    ELSE acc

RECURSIVE Reconcile(_, _)
Reconcile(htasks, acc) ==
    IF htasks = <<>> THEN acc
    ELSE Reconcile(Tail(htasks), ReconcileOne(Head(htasks), acc))

\* ------------------------------------------- Step 3: Origin-driven sync
\* A cycle's working state: the map, the two processed sets, the calls
\* issued so far, the keys to drop after the loop, the Mirror tasks created.
\* variant: the Origin ID is not recorded after a successful completion
Step3CompleteAndMark_noOriginMark(tid, hid, st) ==
    { [st EXCEPT !.calls = Append(@, Call("complete", tid, hid, ok, NoNotes)),
                 !.ph = IF ok THEN @ \cup {hid} ELSE @,
                 !.rm = @ \cup {tid}]
      : ok \in complete_habitica_task(hid) }
\* variant: both IDs are recorded whatever the call returned
Step3CompleteAndMark_markAlways(tid, hid, st) ==
    { [st EXCEPT !.calls = Append(@, Call("complete", tid, hid, ok, NoNotes)),
                 !.pt = @ \cup {tid},
                 !.ph = @ \cup {hid},
                 !.rm = @ \cup {tid}]
      : ok \in complete_habitica_task(hid) }
Step3CompleteAndMark(tid, hid, st) ==
    { [st EXCEPT !.calls = Append(@, Call("complete", tid, hid, ok, NoNotes)),
                 !.pt = IF ok THEN @ \cup {tid} ELSE @,
                 !.ph = IF ok THEN @ \cup {hid} ELSE @,
                 !.rm = @ \cup {tid}]
      : ok \in complete_habitica_task(hid) }

Step3DeleteAndMark(tid, hid, st) ==
    { [st EXCEPT !.calls = Append(@, Call("delete", tid, hid, ok, NoNotes)),
                 !.ph = IF ok THEN @ \cup {hid} ELSE @,
                 !.rm = @ \cup {tid}]
      : ok \in delete_habitica_task(hid) }

\* variant: no look-up in the Origin-processed set
Step3Completed_unguarded(tid, hid, st) == Step3CompleteAndMark(tid, hid, st)
\* the task is in the snapshot and completed
Step3Completed(tid, hid, st) ==
    IF tid \notin st.pt THEN Step3CompleteAndMark(tid, hid, st) ELSE {st}

\* the task is in the snapshot, not completed
Step3Active(tid, hid, today, st) ==
    IF tid \notin IdsOf(today) THEN Step3DeleteAndMark(tid, hid, st) ELSE {st}

\* variant: no look-up in the Origin-processed set for a task that left
\* the snapshot
Step3Vanished_unguarded(tid, hid, st) == Step3CompleteAndMark(tid, hid, st)
\* variant: the link of a task that left the snapshot stays in the map
Step3Vanished_kept(tid, hid, st) ==
    IF tid \notin st.pt
    THEN { [s EXCEPT !.rm = st.rm] : s \in Step3CompleteAndMark(tid, hid, st) }
    ELSE {st}
\* variant: nothing is done for a task that left the snapshot
Step3Vanished_ignored(tid, hid, st) == {st}
\* the task is not in the snapshot
Step3Vanished(tid, hid, st) ==
    IF tid \notin st.pt THEN Step3CompleteAndMark(tid, hid, st) ELSE {st}

\* variant: the Mirror task of a task that left the snapshot is deleted
Step3Item_deleteVanished(e, tasks, today, st) ==
    IF HasTask(tasks, e.k)
    THEN IF GetTask(tasks, e.k).is_completed
         THEN Step3Completed(e.k, e.v, st)
         ELSE Step3Active(e.k, e.v, today, st)
    ELSE Step3DeleteAndMark(e.k, e.v, st)
Step3Item(e, tasks, today, st) ==
    IF HasTask(tasks, e.k)
    THEN IF GetTask(tasks, e.k).is_completed
         THEN Step3Completed(e.k, e.v, st)
         ELSE Step3Active(e.k, e.v, today, st)
    ELSE Step3Vanished(e.k, e.v, st)

RECURSIVE Step3Loop(_, _, _, _)
Step3Loop(items, tasks, today, st) ==
    IF items = <<>> THEN {st}
    ELSE UNION { Step3Loop(Tail(items), tasks, today, s)
                 : s \in Step3Item(Head(items), tasks, today, st) }

DropRemoved(st) == [st EXCEPT !.map = MapDel(@, st.rm), !.rm = {}]

Step3(tasks, today, st) ==
    { DropRemoved(s) : s \in Step3Loop(st.map, tasks, today, st) }

\* --------------------------------- Step 4: Mirror-driven completion sync
ResolveTid(ht, map) ==
    IF FirstKeyOf(map, ht.id) # NoTid THEN FirstKeyOf(map, ht.id)
    ELSE IF Contains(ht.notes, TAG) THEN ParseTag(ht.notes)
    ELSE NoTid

\* variant: both IDs are recorded whatever close_task returned
Step4CloseAndMark_markAlways(tid, hid, st) ==
    { [st EXCEPT !.calls = Append(@, Call("close", tid, hid, ok, NoNotes)),
                 !.ph = @ \cup {hid},
                 !.pt = @ \cup {tid},
                 !.rm = IF ok THEN @ \cup {tid} ELSE @]
      : ok \in complete_todoist_task(tid) }
\* variant: the map entry stays after a successful close
Step4CloseAndMark_keepEntry(tid, hid, st) ==
    { [st EXCEPT !.calls = Append(@, Call("close", tid, hid, ok, NoNotes)),
                 !.ph = IF ok THEN @ \cup {hid} ELSE @,
                 !.pt = IF ok THEN @ \cup {tid} ELSE @]
      : ok \in complete_todoist_task(tid) }
\* variant: a successful close does not record the Mirror ID
Step4CloseAndMark_noMirrorMark(tid, hid, st) ==
    { [st EXCEPT !.calls = Append(@, Call("close", tid, hid, ok, NoNotes)),
                 !.pt = IF ok THEN @ \cup {tid} ELSE @,
                 !.rm = IF ok THEN @ \cup {tid} ELSE @]
      : ok \in complete_todoist_task(tid) }
\* variant: a successful close does not record the Origin ID
Step4CloseAndMark_noOriginMark(tid, hid, st) ==
    { [st EXCEPT !.calls = Append(@, Call("close", tid, hid, ok, NoNotes)),
                 !.ph = IF ok THEN @ \cup {hid} ELSE @,
                 !.rm = IF ok THEN @ \cup {tid} ELSE @]
      : ok \in complete_todoist_task(tid) }
\* close_task on the resolved Origin ID; on success both IDs are recorded
\* and the Origin ID is queued for removal from the map
Step4CloseAndMark(tid, hid, st) ==
    { [st EXCEPT !.calls = Append(@, Call("close", tid, hid, ok, NoNotes)),
                 !.ph = IF ok THEN @ \cup {hid} ELSE @,
                 !.pt = IF ok THEN @ \cup {tid} ELSE @,
                 !.rm = IF ok THEN @ \cup {tid} ELSE @]
      : ok \in complete_todoist_task(tid) }

Step4Candidate(ht, valid, st) ==
    /\ (ht.id \in valid \/ ht.id \in MapValues(st.map))
    /\ ht.completed
    /\ ht.id \notin st.ph

\* variant: a completed Mirror task is recorded without closing its Origin task
Step4Item_noClose(ht, valid, st) ==
    IF Step4Candidate(ht, valid, st)
    THEN {[st EXCEPT !.ph = @ \cup {ht.id}]}
    ELSE {st}
Step4Item(ht, valid, st) ==
    IF Step4Candidate(ht, valid, st)
    THEN LET tid == ResolveTid(ht, st.map)
         IN  IF tid # NoTid /\ tid \notin st.pt
             THEN Step4CloseAndMark(tid, ht.id, st)
             ELSE {[st EXCEPT !.ph = @ \cup {ht.id}]}
    ELSE {st}

RECURSIVE Step4Loop(_, _, _)
Step4Loop(htasks, valid, st) ==
    IF htasks = <<>> THEN {st}
    ELSE UNION { Step4Loop(Tail(htasks), valid, s)
                 : s \in Step4Item(Head(htasks), valid, st) }

Step4(htasks, valid, st) ==
    { DropRemoved(s) : s \in Step4Loop(htasks, valid, st) }

\* ------------------------------------------ Step 5: new-task propagation
Step5Create(task, st) ==
    { IF new = Raised
      THEN [st EXCEPT !.calls = Append(@, Call("create", task.id, None, FALSE,
                                          HabiticaNotes(task.description, task.id))),
                      !.crashed = TRUE]
      ELSE [st EXCEPT !.calls = Append(@, Call("create", task.id, new, new # None,
                                          HabiticaNotes(task.description, task.id))),
                 !.map = IF new # None THEN MapSet(@, task.id, new) ELSE @,
                 !.created = IF new # None THEN @ + 1 ELSE @]
      : new \in create_habitica_task_from_todoist(st.created) }

\* an exception that left create_habitica_task_from_todoist ends the loop
Step5Item(task, st) ==
    IF st.crashed THEN {st}
    ELSE IF task.id \notin MapKeys(st.map) /\ ~task.is_completed
    THEN Step5Create(task, st)
    ELSE {st}

RECURSIVE Step5(_, _)
Step5(today, st) ==
    IF today = <<>> THEN {st}
    ELSE UNION { Step5(Tail(today), s) : s \in Step5Item(Head(today), st) }

\* ------------------------------------------------------- the whole cycle
EmptyMap == <<>>

\* perform_single_sync_cycle after the fetches: every working state the
\* cycle can end in, one per combination of remote-call outcomes.
\* variant: Step 5 works on a copy of the map taken after Step 2
SyncSteps_staleMap(tasks, htasks, loaded) ==
    LET today == todoist_tasks_for_today(tasks)
        rec   == Reconcile(htasks, [map |-> EmptyMap, valid |-> {}])
        st0   == [map |-> rec.map, valid |-> rec.valid, map2 |-> rec.map,
                  map4 |-> rec.map, map5 |-> rec.map,
                  pt |-> loaded.pt, ph |-> loaded.ph,
                  calls |-> <<>>, rm |-> {}, created |-> 0, crashed |-> FALSE]
        after3 == Step3(tasks, today, st0)
        after4 == UNION { Step4(htasks, rec.valid, [s EXCEPT !.map4 = s.map])
                          : s \in after3 }
    IN  UNION { Step5(today, [s EXCEPT !.map5 = s.map, !.map = s.map2]) : s \in after4 }
\* variant: the cycle starts from empty processed sets, not the loaded ones
SyncSteps_fromEmpty(tasks, htasks, loaded) ==
    LET today == todoist_tasks_for_today(tasks)
        rec   == Reconcile(htasks, [map |-> EmptyMap, valid |-> {}])
        st0   == [map |-> rec.map, valid |-> rec.valid, map2 |-> rec.map,
                  map4 |-> rec.map, map5 |-> rec.map,
                  pt |-> NoIds, ph |-> NoIds,
                  calls |-> <<>>, rm |-> {}, created |-> 0, crashed |-> FALSE]
        after3 == Step3(tasks, today, st0)
        after4 == UNION { Step4(htasks, rec.valid, [s EXCEPT !.map4 = s.map])
                          : s \in after3 }
    IN  UNION { Step5(today, [s EXCEPT !.map5 = s.map]) : s \in after4 }
\* Steps 2 to 5 on the two fetched lists and the loaded processed sets
SyncSteps(tasks, htasks, loaded) ==
    LET today == todoist_tasks_for_today(tasks)
        rec   == Reconcile(htasks, [map |-> EmptyMap, valid |-> {}])
        st0   == [map |-> rec.map, valid |-> rec.valid, map2 |-> rec.map,
                  map4 |-> rec.map, map5 |-> rec.map,
                  pt |-> loaded.pt, ph |-> loaded.ph,
                  calls |-> <<>>, rm |-> {}, created |-> 0, crashed |-> FALSE]
        after3 == Step3(tasks, today, st0)
        after4 == UNION { Step4(htasks, rec.valid, [s EXCEPT !.map4 = s.map])
                          : s \in after3 }
    IN  UNION { Step5(today, [s EXCEPT !.map5 = s.map]) : s \in after4 }

\* ------------------------------------------- effects on the two services
RECURSIVE ApplyMirror(_, _)
ApplyMirror(m, calls) ==
    IF calls = <<>> THEN m
    ELSE LET c == Head(calls)
             m2 == IF ~c.ok THEN m
                   ELSE IF c.op = "complete"
                   THEN [i \in 1..Len(m) |->
                            IF m[i].id = c.hid THEN [m[i] EXCEPT !.completed = TRUE]
                            ELSE m[i]]
                   ELSE IF c.op = "delete"
                   THEN SelectSeq(m, LAMBDA t : t.id # c.hid)
                   ELSE IF c.op = "create"
                   THEN Append(m, [id |-> c.hid, type |-> "todo",
                                   notes |-> c.notes, completed |-> FALSE])
                   ELSE m
         IN  ApplyMirror(m2, Tail(calls))

ClosedIds(calls) ==
    {calls[i].tid : i \in {j \in 1..Len(calls) : calls[j].op = "close" /\ calls[j].ok}}

ApplyOrigin(o, calls) ==
    [t \in TIDs |->
        IF t \in ClosedIds(calls) /\ o[t].status = "active"
        THEN [o[t] EXCEPT !.status = "completed"]
        ELSE o[t]]

\* ----------------------------------------------------------- the cycle
NoCycle == [ran |-> FALSE, crashed |-> FALSE]
\* perform_single_sync_cycle was left by an uncaught exception
CrashedCycle == [ran |-> FALSE, crashed |-> TRUE]
NoProbe == [fn |-> "none"]
NoRuns == <<>>

\* What one run of perform_single_sync_cycle read, called and wrote.
CycleRecord(o, m, loaded, r) ==
    [ran      |-> TRUE,
     crashed  |-> FALSE,
     path     |-> o.path,          \* how get_todoist_tasks got its list
     mfailed  |-> m.failed,        \* get_habitica_user_tasks failed
     tasks    |-> o.tasks,         \* all_todoist_tasks_from_api
     htasks   |-> m.tasks,         \* habitica_tasks
     valid    |-> r.valid,         \* habitica_ids_with_valid_tags
     map2     |-> r.map2,          \* the map after Step 2
     map4     |-> r.map4,          \* the map when Step 4 starts
     map5     |-> r.map5,          \* the map when Step 5 starts
     mapEnd   |-> r.map,           \* the map at the end of the cycle
     prePt    |-> loaded.pt,       \* processed sets as loaded
     prePh    |-> loaded.ph,
     pt       |-> r.pt,            \* processed sets as saved
     ph       |-> r.ph,
     stored   |-> file,            \* the state file before the cycle
     \* the cycle before, when nothing happened in between: the map at its
     \* end, and the entries its Step 5 added
     prevRan  |-> last.ran,
     prevEnd  |-> IF last.ran THEN last.mapEnd ELSE EmptyMap,
     prevNew  |-> IF last.ran THEN Range(last.mapEnd) \ Range(last.map5) ELSE {},
     calls    |-> r.calls]

\* perform_single_sync_cycle, credentials present.  A run that an
\* exception leaves has made its calls but does not reach the save.
Cycle ==
    /\ \E o \in get_todoist_tasks, m \in get_habitica_user_tasks :
        LET loaded == load_processed_state(file)
        IN  IF m.raised
            THEN /\ UNCHANGED <<origin, mirror, nextHid, file>>
                 /\ last' = CrashedCycle
            ELSE \E r \in SyncSteps(o.tasks, m.tasks, loaded) :
                   /\ origin' = ApplyOrigin(origin, r.calls)
                   /\ mirror' = ApplyMirror(mirror, r.calls)
                   /\ nextHid' = nextHid + r.created
                   /\ file' = IF r.crashed THEN file
                              ELSE save_processed_state(r.pt, r.ph)
                   /\ last' = IF r.crashed THEN CrashedCycle
                              ELSE CycleRecord(o, m, loaded, r)
    /\ UNCHANGED <<probe, runs>>

\* ------------------------------------------------- the users' own actions
Forget == last' = NoCycle /\ UNCHANGED <<probe, runs>>

UserAddsOriginTask(t, due) ==
    /\ origin[t].status = "none"
    /\ origin' = [origin EXCEPT ![t] = [status |-> "active", due |-> due]]
    /\ UNCHANGED <<mirror, nextHid, file>>
    /\ Forget

UserReschedulesOriginTask(t, due) ==
    /\ origin[t].status = "active"
    /\ origin[t].due # due
    /\ origin' = [origin EXCEPT ![t].due = due]
    /\ UNCHANGED <<mirror, nextHid, file>>
    /\ Forget

UserCompletesOriginTask(t) ==
    /\ origin[t].status = "active"
    /\ origin' = [origin EXCEPT ![t].status = "completed"]
    /\ UNCHANGED <<mirror, nextHid, file>>
    /\ Forget

UserReopensOriginTask(t) ==
    /\ origin[t].status = "completed"
    /\ origin' = [origin EXCEPT ![t].status = "active"]
    /\ UNCHANGED <<mirror, nextHid, file>>
    /\ Forget

\* the user deletes the task, or a completed task drops out of the API
OriginTaskDisappears(t) ==
    /\ origin[t].status # "none"
    /\ origin' = [origin EXCEPT ![t] = [status |-> "none", due |-> "other"]]
    /\ UNCHANGED <<mirror, nextHid, file>>
    /\ Forget

UserCompletesMirrorTask(i) ==
    /\ i \in 1..Len(mirror)
    /\ ~mirror[i].completed
    /\ mirror' = [mirror EXCEPT ![i].completed = TRUE]
    /\ UNCHANGED <<origin, nextHid, file>>
    /\ Forget

UserDeletesMirrorTask(i) ==
    /\ i \in 1..Len(mirror)
    /\ mirror' = SelectSeq(mirror, LAMBDA t : t.id # mirror[i].id)
    /\ UNCHANGED <<origin, nextHid, file>>
    /\ Forget

\* ------------------------------------------------------- specification
Init ==
    /\ origin = [t \in TIDs |-> [status |-> "none", due |-> "other"]]
    /\ mirror = <<>>
    /\ nextHid = 0
    /\ file = [kind |-> "absent", pt |-> NoIds, ph |-> NoIds]
    /\ last = NoCycle
    /\ probe = NoProbe
    /\ runs = NoRuns

Next ==
    \/ Cycle
    \/ \E t \in TIDs, due \in Dues : UserAddsOriginTask(t, due)
    \/ \E t \in TIDs, due \in Dues : UserReschedulesOriginTask(t, due)
    \/ \E t \in TIDs : UserCompletesOriginTask(t)
    \/ \E t \in TIDs : UserReopensOriginTask(t)
    \/ \E t \in TIDs : OriginTaskDisappears(t)
    \/ \E i \in HIDs : UserCompletesMirrorTask(i)
    \/ \E i \in HIDs : UserDeletesMirrorTask(i)

Spec == Init /\ [][Next]_vars

\* ------------------------------------------------- reading a cycle record
NumCalls(c, P(_)) == Cardinality({i \in 1..Len(c.calls) : P(c.calls[i])})
AllCallsOk(c) == \A i \in 1..Len(c.calls) : c.calls[i].ok
\* both fetches returned the services' true lists and every call succeeded
CleanCycle(c) == c.path # "failed" /\ ~c.mfailed /\ AllCallsOk(c)
\* both fetches returned the services' true lists
FetchesOk(c) == c.path # "failed" /\ ~c.mfailed
\* the step taken is a cycle that directly follows a cycle
CycleAfterCycle == last.ran /\ last'.ran

\* C1 (as claimed).  Idempotence: a cycle whose fetches and calls all
\* succeeded, directly followed by a second cycle that fetches the same
\* way, is followed by a cycle that issues no mutating call at all.
C1_Idempotent ==
    [][ ( /\ CycleAfterCycle
          /\ CleanCycle(last)
          /\ last'.path = last.path
          /\ ~last'.mfailed )
        => last'.calls = <<>> ]_vars

\* the snapshot lists tid as a task that is completed / pending
SnapCompleted(c, tid) == HasTask(c.tasks, tid) /\ GetTask(c.tasks, tid).is_completed
SnapPending(c, tid) == HasTask(c.tasks, tid) /\ ~GetTask(c.tasks, tid).is_completed
SnapDueToday(c, tid) == tid \in IdsOf(todoist_tasks_for_today(c.tasks))
\* the Origin ID in the tag of a Mirror task's notes (NoTid when untagged)
TagOf(ht) == IF HasTag(ht) THEN ParseTag(ht.notes) ELSE NoTid
IsCall(x, op, tid, hid) == x.op = op /\ x.tid = tid /\ x.hid = hid

\* C2.  No-resurrection: a cycle issues no completion call (Mirror complete,
\* Origin close) for an Origin ID that was in the Origin-processed set, or
\* for a Mirror ID that was in the Mirror-processed set, when it started.
C2_NoResurrection ==
    last.ran =>
        \A i \in 1..Len(last.calls) :
            last.calls[i].op \in {"complete", "close"} =>
                /\ last.calls[i].tid \notin last.prePt
                /\ last.calls[i].hid \notin last.prePh

\* A cycle ran with a processed Origin ID whose task the snapshot still
\* shows pending and due, linked to a completed, unprocessed Mirror task.
C2_Witness ==
    /\ last.ran
    /\ \E t \in last.prePt :
          /\ SnapPending(last, t) /\ SnapDueToday(last, t)
          /\ \E i \in 1..Len(last.htasks) :
                /\ TagOf(last.htasks[i]) = t
                /\ last.htasks[i].completed
                /\ last.htasks[i].id \notin last.prePh

\* C3 (as claimed, read for a cycle whose fetches succeed).  Origin task T1
\* completed in the snapshot, mapped to M1, not processed: the cycle calls
\* Mirror complete on M1 exactly once and T1 is in the Origin-processed set
\* afterwards.
C3_Original ==
    (last.ran /\ FetchesOk(last)) =>
        \A e \in Range(last.map2) :
            (SnapCompleted(last, e.k) /\ e.k \notin last.prePt) =>
                /\ NumCalls(last, LAMBDA x : x.op = "complete" /\ x.hid = e.v) = 1
                /\ e.k \in last.pt

\* C3 (amended).  Origin task T1 completed in the snapshot, mapped to M1
\* after Step 2, not in the Origin-processed set: the cycle calls Mirror
\* complete on M1 exactly once and, when that call succeeds, T1 and M1 are
\* in the processed sets afterwards.
C3_Amended ==
    last.ran =>
        \A e \in Range(last.map2) :
            (SnapCompleted(last, e.k) /\ e.k \notin last.prePt) =>
                /\ NumCalls(last, LAMBDA x : x.op = "complete" /\ x.hid = e.v) = 1
                /\ \A i \in 1..Len(last.calls) :
                      (IsCall(last.calls[i], "complete", e.k, e.v) /\ last.calls[i].ok)
                          => (e.k \in last.pt /\ e.v \in last.ph)

C3_Witness ==
    /\ last.ran
    /\ \E e \in Range(last.map2) :
          /\ SnapCompleted(last, e.k) /\ e.k \notin last.prePt
          /\ \E i \in 1..Len(last.calls) :
                IsCall(last.calls[i], "complete", e.k, e.v) /\ last.calls[i].ok

CompletedWithTag(c, tid) ==
    {i \in 1..Len(c.htasks) : c.htasks[i].completed /\ TagOf(c.htasks[i]) = tid}

CarriesTagOf(notes, tid) ==
    \E i \in 1..Len(notes) :
        /\ i + Len(tid) + 1 <= Len(notes)
        /\ SubSeq(notes, i, i + Len(tid) + 1) = <<TAG>> \o tid \o <<RB>>

\* C5.  New-task creation: for every task of the due-today snapshot that is
\* not completed and not a key of the map when Step 5 starts, the cycle
\* issues exactly one Mirror create call, and its notes hold the task's tag.
C5_NewTaskCreated ==
    last.ran =>
        \A task \in Range(todoist_tasks_for_today(last.tasks)) :
            (~task.is_completed /\ task.id \notin MapKeys(last.map5)) =>
                /\ NumCalls(last, LAMBDA x : x.op = "create" /\ x.tid = task.id) = 1
                /\ \A i \in 1..Len(last.calls) :
                      (last.calls[i].op = "create" /\ last.calls[i].tid = task.id)
                          => CarriesTagOf(last.calls[i].notes, task.id)

C5_Witness ==
    /\ last.ran
    /\ \E task \in Range(todoist_tasks_for_today(last.tasks)) :
          /\ ~task.is_completed /\ task.id \notin MapKeys(last.map5)
          /\ \E i \in 1..Len(last.calls) :
                last.calls[i].op = "create" /\ last.calls[i].tid = task.id

\* C6 (as claimed, read for a cycle whose fetches succeed).  Vanished task: for every key of the map after Step 2
\* that the Origin snapshot does not list, the cycle issues exactly one
\* terminal Mirror call (complete or delete) on the mapped Mirror task and
\* the key is not in the map at the end.
C6_Original ==
    (last.ran /\ FetchesOk(last)) =>
        \A e \in Range(last.map2) :
            ~HasTask(last.tasks, e.k) =>
                /\ NumCalls(last, LAMBDA x : x.op \in {"complete", "delete"} /\ x.hid = e.v) = 1
                /\ e.k \notin MapKeys(last.mapEnd)

\* C6 (amended).  For every Origin ID that is a map key after Step 2, that
\* the Origin snapshot does not list and that is not in the
\* Origin-processed set, the cycle issues exactly one terminal Mirror
\* action on the mapped Mirror task and the map does not contain the
\* Origin ID at the end of the cycle.
C6_Amended ==
    last.ran =>
        \A e \in Range(last.map2) :
            (~HasTask(last.tasks, e.k) /\ e.k \notin last.prePt) =>
                /\ NumCalls(last, LAMBDA x : x.op \in {"complete", "delete"} /\ x.hid = e.v) = 1
                /\ e.k \notin MapKeys(last.mapEnd)

C6_Witness ==
    /\ last.ran
    /\ last.path # "failed"
    /\ \E e \in Range(last.map2) :
          /\ ~HasTask(last.tasks, e.k) /\ e.k \notin last.prePt
          /\ \E i \in 1..Len(last.calls) : IsCall(last.calls[i], "complete", e.k, e.v)

AddedPt(c) == c.pt \ c.prePt
AddedPh(c) == c.ph \ c.prePh
\* a call of one of the operations ops succeeded for Origin ID tid / Mirror ID hid
OkCallForTid(c, ops, tid) ==
    \E i \in 1..Len(c.calls) :
        c.calls[i].ok /\ c.calls[i].op \in ops /\ c.calls[i].tid = tid
OkCallForHid(c, ops, hid) ==
    \E i \in 1..Len(c.calls) :
        c.calls[i].ok /\ c.calls[i].op \in ops /\ c.calls[i].hid = hid
\* the Origin ID that the notes of Mirror task hid link it to
TidOfHid(c, hid) == TagOf(CHOOSE ht \in Range(c.htasks) : ht.id = hid)

\* C8 (as claimed, read for a cycle whose fetches succeed).  An ID enters a
\* processed set only after a completion call (Mirror complete, Origin
\* close) for its link succeeded in that cycle, or when the counterpart is
\* gone from the snapshot or the link cannot be resolved.
C8_Original ==
    (last.ran /\ FetchesOk(last)) =>
        /\ \A t \in AddedPt(last) :
              OkCallForTid(last, {"complete", "close"}, t)
        /\ \A h \in AddedPh(last) :
              \/ OkCallForHid(last, {"complete", "close"}, h)
              \/ OkCallForTid(last, {"complete", "close"}, TidOfHid(last, h))
              \/ ~HasTask(last.tasks, TidOfHid(last, h))
              \/ TidOfHid(last, h) = NoTid

\* C8 (amended).  An Origin ID enters the Origin-processed set only after a
\* Mirror complete or Origin close call for it succeeded in that cycle.  A
\* Mirror ID enters the Mirror-processed set only after a Mirror complete,
\* Mirror delete or Origin close call for it succeeded in that cycle, or
\* when the Origin ID its notes link it to is in the Origin-processed set.
C8_Amended ==
    last.ran =>
        /\ \A t \in AddedPt(last) :
              OkCallForTid(last, {"complete", "close"}, t)
        /\ \A h \in AddedPh(last) :
              \/ OkCallForHid(last, {"complete", "delete", "close"}, h)
              \/ TidOfHid(last, h) \in last.pt

\* A Mirror ID entered the processed set on a successful delete, and
\* another one because its Origin ID was processed already.
C8_Witness ==
    /\ last.ran
    /\ \E h \in AddedPh(last) :
          \/ OkCallForHid(last, {"delete"}, h)
          \/ ~OkCallForHid(last, {"complete", "delete", "close"}, h)

\* C9.  The processed sets in the state file after a cycle are supersets of
\* the sets in the file before it.
C9_Monotone ==
    last.ran =>
        /\ last.stored.pt \subseteq file.pt
        /\ last.stored.ph \subseteq file.ph

\* The file held processed IDs before the cycle and the cycle added more.
C9_Witness ==
    /\ last.ran
    /\ last.stored.pt # {} /\ last.stored.ph # {}
    /\ file.pt # last.stored.pt /\ file.ph # last.stored.ph

\* the calls of cycle c that failed, among Mirror complete, Origin close
\* and Mirror create
FailedCalls(c) ==
    {i \in 1..Len(c.calls) :
        ~c.calls[i].ok /\ c.calls[i].op \in {"complete", "close", "create"}}
AllOps == {"complete", "delete", "close", "create"}
\* cycle c issued the call x again
Reissued(c, x) ==
    \E j \in 1..Len(c.calls) :
        /\ c.calls[j].op = x.op /\ c.calls[j].tid = x.tid
        /\ (x.op # "create" => c.calls[j].hid = x.hid)
\* cycle c issued some call for the Origin ID of x
Retried(c, x) ==
    \E j \in 1..Len(c.calls) : c.calls[j].tid = x.tid
\* call i is the first call of cycle c for its Origin ID
FirstForTid(c, i) ==
    \A j \in 1..(i - 1) : c.calls[j].tid # c.calls[i].tid
\* the cycle of this step follows a cycle directly, both with successful
\* fetches of the same kind
SameFetchAgain ==
    /\ CycleAfterCycle
    /\ FetchesOk(last) /\ FetchesOk(last')
    /\ last'.path = last.path

\* cycle c created a Mirror task for an Origin task that it had closed
CreateAfterClose(c) ==
    \E i, j \in 1..Len(c.calls) :
        /\ i < j
        /\ c.calls[i].op = "close" /\ c.calls[i].ok
        /\ c.calls[j].op = "create" /\ c.calls[j].tid = c.calls[i].tid

\* C10 (as claimed, read for cycles whose fetches succeed and that create
\* no Mirror task for an Origin task closed in the same cycle).  When a
\* Mirror complete, Origin close or Mirror create call fails, neither
\* processed set gains the IDs of its item in that cycle, and the next cycle
\* issues the same call again.
C10_Original ==
    [][ /\ (last'.ran /\ FetchesOk(last') /\ ~CreateAfterClose(last')) =>
              \A i \in FailedCalls(last') :
                  /\ last'.calls[i].tid \notin AddedPt(last')
                  /\ last'.calls[i].hid \notin AddedPh(last')
        /\ (SameFetchAgain /\ ~CreateAfterClose(last)) =>
              \A i \in FailedCalls(last) : Reissued(last', last.calls[i])
      ]_vars

\* C10 (amended).  When a Mirror complete, Origin close or Mirror create
\* call fails and no call of that cycle succeeds for the same Origin ID,
\* neither processed set gains the IDs of its item in that cycle, and the
\* next cycle issues a call for that Origin ID again: the same call when the
\* failed call was the first one of its cycle for that Origin ID.
C10_Amended ==
    [][ /\ last'.ran =>
              \A i \in FailedCalls(last') :
                  ~OkCallForTid(last', AllOps, last'.calls[i].tid) =>
                      /\ last'.calls[i].tid \notin AddedPt(last')
                      /\ last'.calls[i].hid \notin AddedPh(last')
        /\ SameFetchAgain =>
              \A i \in FailedCalls(last) :
                  ~OkCallForTid(last, AllOps, last.calls[i].tid) =>
                      /\ Retried(last', last.calls[i])
                      /\ FirstForTid(last, i) =>
                            Reissued(last', last.calls[i])
      ]_vars

\* A cycle in which a call failed and later calls were still issued,
\* directly after a cycle in which a call failed.
C10_Witness ==
    /\ last.ran /\ FetchesOk(last)
    /\ \E i \in FailedCalls(last) :
          /\ i < Len(last.calls)
          /\ ~OkCallForTid(last, AllOps, last.calls[i].tid)
          /\ last.calls[i].op = "complete"

\* C11 (as claimed).  No error is fatal: whatever the remote calls answer,
\* no run of the cycle is left by an uncaught exception.
C11_NoUncaughtException == ~last.crashed

\* ------------------------------------- load_processed_state on its own
\* Strings that a field of the state file may hold instead of a list.
FieldStrings == {<<>>, <<"1">>, <<"1", "2">>}
Missing == [t |-> "missing", v |-> NoIds, s |-> <<>>]
FieldValues ==
    {[t |-> x, v |-> NoIds, s |-> <<>>] : x \in {"missing", "number", "null", "nested"}}
    \cup {[t |-> "list", v |-> ids, s |-> <<>>] : ids \in SUBSET TIDs}
    \cup {[t |-> "string", v |-> NoIds, s |-> str] : str \in FieldStrings}
    \cup {[t |-> "object", v |-> ids, s |-> <<>>] : ids \in {{<<"1">>}}}
StateFiles ==
    {[kind |-> k, pt |-> Missing, ph |-> Missing] : k \in {"absent", "notjson", "nonobject"}}
    \cup {[kind |-> "object", pt |-> a, ph |-> b] : a \in FieldValues, b \in FieldValues}

InitLoad ==
    /\ origin = [t \in TIDs |-> [status |-> "none", due |-> "other"]]
    /\ mirror = <<>>
    /\ nextHid = 0
    /\ last = NoCycle
    /\ runs = NoRuns
    /\ file \in StateFiles
    /\ probe = [fn |-> "load", done |-> FALSE, out |-> [pt |-> NoIds, ph |-> NoIds]]

\* line 300: the cycle loads the processed sets and goes on
LoadStateFile ==
    /\ ~probe.done
    /\ probe' = [probe EXCEPT !.done = TRUE, !.out = load_processed_state(file)]
    /\ UNCHANGED <<origin, mirror, nextHid, file, last, runs>>

NextLoad == LoadStateFile

SpecLoad == InitLoad /\ [][NextLoad]_vars

\* the file is an object whose fields, where present, are lists of IDs
ExpectedShape(f) ==
    /\ f.kind = "object"
    /\ f.pt.t \in {"list", "missing"}
    /\ f.ph.t \in {"list", "missing"}

\* C12 (as claimed).  When the state file is absent, is not valid JSON or
\* has an unexpected shape, load_processed_state returns two empty sets.
C12_LoadTolerance ==
    (probe.done /\ ~ExpectedShape(file)) =>
        probe.out = [pt |-> NoIds, ph |-> NoIds]

\* ------------------------------------- delete_habitica_task on its own
\* Number of Mirror tasks in the todo list that the deletes work on.
MaxDeleteIds == 3
DeleteIds == 1..MaxDeleteIds
\* What happens to the DELETE request: the Mirror service serves it, it
\* answers another HTTP error, or the transport fails.
DeleteFaults == {"none", "5xx", "transport"}

\* the Mirror service's answer to DELETE /tasks/<hid>
MirrorDeleteAnswer(m, hid, fault) ==
    IF fault # "none" THEN fault
    ELSE IF \E i \in 1..Len(m) : m[i].id = hid THEN "2xx" ELSE "404"

\* variant: a 404 answer is reported as a failure
DeleteReturn_404Fails(creds, status) == creds /\ status = "2xx"
\* delete_habitica_task: False without credentials; True on 2xx and on
\* 404; False on another HTTP error or a transport error.
DeleteReturn(creds, status) == creds /\ status \in {"2xx", "404"}

InitDelete ==
    /\ origin = [t \in TIDs |-> [status |-> "none", due |-> "other"]]
    /\ mirror = [i \in DeleteIds |->
                    [id |-> i, type |-> "todo", notes |-> <<>>, completed |-> FALSE]]
    /\ nextHid = MaxDeleteIds
    /\ file = [kind |-> "absent", pt |-> NoIds, ph |-> NoIds]
    /\ last = NoCycle
    /\ runs = NoRuns
    /\ probe = [fn |-> "delete", hid |-> None, status |-> "none",
                out |-> FALSE, before |-> "none"]

\* one call of delete_habitica_task(hid)
DeleteMirrorTask(hid, creds, fault) ==
    LET status == IF creds THEN MirrorDeleteAnswer(mirror, hid, fault)
                  ELSE "norequest"
    IN  /\ mirror' = IF status = "2xx"
                     THEN SelectSeq(mirror, LAMBDA t : t.id # hid)
                     ELSE mirror
        /\ probe' = [fn |-> "delete", hid |-> hid, status |-> status,
                     out |-> DeleteReturn(creds, status),
                     before |-> IF probe.hid = hid THEN probe.status ELSE "none"]
        /\ UNCHANGED <<origin, nextHid, file, last, runs>>

NextDelete ==
    \E hid \in DeleteIds, creds \in BOOLEAN, fault \in DeleteFaults :
        DeleteMirrorTask(hid, creds, fault)

SpecDelete == InitDelete /\ [][NextDelete]_vars

\* C13.  Delete is idempotent: delete_habitica_task returns true when the
\* Mirror API answers 404, so a served delete of an ID whose previous delete
\* was served is answered 404 and returns true again; it returns false only
\* for another HTTP error, a transport error or missing credentials.
C13_DeleteIdempotent ==
    probe.hid # None =>
        /\ probe.status = "404" => probe.out
        /\ ~probe.out <=> probe.status \in {"5xx", "transport", "norequest"}
        /\ (probe.before \in {"2xx", "404"} /\ probe.status \in {"2xx", "404"}) =>
              (probe.status = "404" /\ probe.out)

\* The same Mirror ID was deleted twice in a row: served first with 2xx,
\* then with 404, and the second call returned true.
C13_Witness ==
    /\ probe.fn = "delete" /\ probe.hid # None
    /\ probe.before = "2xx" /\ probe.status = "404" /\ probe.out

\* ------------------------------------------- the tag, written and read
\* Longest Origin ID and longest description, in tokens.
MaxIdLen == 2
MaxDescLen == 2
IdTokens == {"1", "2", TAG, RB}
DescTokens == {"x", TAG, RB}
RECURSIVE StringsOver(_, _)
\* the strings of at most n tokens
StringsOver(toks, n) ==
    IF n = 0 THEN {<<>>}
    ELSE LET shorter == StringsOver(toks, n - 1)
         IN  shorter \cup {Append(str, c) : str \in shorter, c \in toks}

InitTag ==
    /\ origin = [t \in TIDs |-> [status |-> "none", due |-> "other"]]
    /\ mirror = <<>>
    /\ nextHid = 0
    /\ file = [kind |-> "absent", pt |-> NoIds, ph |-> NoIds]
    /\ last = NoCycle
    /\ runs = NoRuns
    /\ \E id \in StringsOver(IdTokens, MaxIdLen),
          d \in StringsOver(DescTokens, MaxDescLen) :
          probe = [fn |-> "tag", stage |-> "task", id |-> id, description |-> d,
                   notes |-> <<>>, out |-> NoTid]

\* line 476: Step 5 builds the notes of the Mirror task
EmbedTag ==
    /\ probe.stage = "task"
    /\ probe' = [probe EXCEPT !.stage = "notes",
                              !.notes = HabiticaNotes(probe.description, probe.id)]
    /\ UNCHANGED <<origin, mirror, nextHid, file, last, runs>>

\* lines 366-377: Step 2 reads the Origin ID back from a todo with these notes
ParseNotes ==
    /\ probe.stage = "notes"
    /\ LET ht  == [id |-> 1, type |-> "todo", notes |-> probe.notes,
                   completed |-> FALSE]
           rec == ReconcileOne(ht, [map |-> EmptyMap, valid |-> {}])
       IN  probe' = [probe EXCEPT !.stage = "parsed",
                                  !.out = IF rec.map = EmptyMap THEN NoTid
                                          ELSE rec.map[1].k]
    /\ UNCHANGED <<origin, mirror, nextHid, file, last, runs>>

NextTag == EmbedTag \/ ParseNotes

SpecTag == InitTag /\ [][NextTag]_vars

RunIds == {1, 2}
IdleRun == [phase |-> "idle", path |-> "none", tasks |-> <<>>, htasks |-> <<>>,
            loaded |-> [pt |-> NoIds, ph |-> NoIds]]

InitOverlap ==
    /\ origin = [t \in TIDs |-> [status |-> "none", due |-> "other"]]
    /\ mirror = <<>>
    /\ nextHid = 0
    /\ file = [kind |-> "absent", pt |-> NoIds, ph |-> NoIds]
    /\ last = NoCycle
    /\ probe = NoProbe
    /\ runs = [i \in RunIds |-> IdleRun]

\* lines 300-358: load the processed sets, fetch both task lists
RunFetches(i) ==
    /\ runs[i].phase = "idle"
    /\ \E o \in get_todoist_tasks :
          /\ o.path = (IF ListedFrom(1, TRUE) # <<>> THEN "filter" ELSE "fallback")
          /\ runs' = [runs EXCEPT ![i] =
                        [phase |-> "fetched", path |-> o.path, tasks |-> o.tasks,
                         htasks |-> mirror, loaded |-> load_processed_state(file)]]
    /\ UNCHANGED <<origin, mirror, nextHid, file, last, probe>>

\* lines 363-492: Steps 2 to 5 on the lists fetched before, then the save
RunSyncs(i) ==
    /\ runs[i].phase = "fetched"
    /\ LET snap == runs[i]
           o == [tasks |-> snap.tasks, path |-> snap.path]
           m == [tasks |-> snap.htasks, failed |-> FALSE, raised |-> FALSE]
       IN  \E r \in SyncSteps(snap.tasks, snap.htasks, snap.loaded) :
              /\ ~r.crashed
              /\ origin' = ApplyOrigin(origin, r.calls)
              /\ mirror' = ApplyMirror(mirror, r.calls)
              /\ nextHid' = nextHid + r.created
              /\ file' = save_processed_state(r.pt, r.ph)
              /\ last' = CycleRecord(o, m, snap.loaded, r)
    /\ runs' = [runs EXCEPT ![i] = IdleRun]
    /\ UNCHANGED probe

\* the users act while no invocation is between its fetch and its save
NoRunInFlight == \A i \in RunIds : runs[i].phase = "idle"

NextOverlap ==
    \/ \E i \in RunIds : RunFetches(i)
    \/ \E i \in RunIds : RunSyncs(i)
    \/ NoRunInFlight /\ \E t \in TIDs, due \in Dues : UserAddsOriginTask(t, due)
    \/ NoRunInFlight /\ \E t \in TIDs, due \in Dues : UserReschedulesOriginTask(t, due)
    \/ NoRunInFlight /\ \E t \in TIDs : UserCompletesOriginTask(t)
    \/ NoRunInFlight /\ \E i \in HIDs : UserCompletesMirrorTask(i)

SpecOverlap == InitOverlap /\ [][NextOverlap]_vars

\* a Mirror task of list m that is not completed carries the tag of tid
HasOpenMirror(m, tid) ==
    \E k \in 1..Len(m) : ~m[k].completed /\ TagOf(m[k]) = tid

\* C15 (as claimed).  Double-run safety: when invocations overlap, no
\* Mirror task is created for an Origin ID that has an open Mirror task
\* carrying its tag, and no save drops a processed ID that the state file
\* held.
C15_DoubleRunSafe ==
    [][ (\E i \in RunIds : runs[i].phase = "fetched" /\ runs'[i].phase = "idle") =>
          /\ \A k \in 1..Len(last'.calls) :
                (last'.calls[k].op = "create" /\ last'.calls[k].ok) =>
                    ~HasOpenMirror(mirror, last'.calls[k].tid)
          /\ file.kind = "ok" =>
                (file.pt \subseteq file'.pt /\ file.ph \subseteq file'.ph)
      ]_vars

\* ------------------------------------------------ cycles on a schedule
\* From any state that the users, the cycles and their failures have
\* produced, the users stop acting and requests stop failing (Settle).
\* From then on the scheduler keeps invoking perform_single_sync_cycle;
\* the cycles run since are counted up to QuietAfter.  A cycle handles one
\* Mirror task per Origin ID (processed_state's map), so duplicates left by
\* earlier failures take one cycle each.
QuietAfter == MaxMirror + 1
Settled(n) == [fn |-> "settled", n |-> n]

Settle ==
    /\ probe = NoProbe
    /\ probe' = Settled(0)
    /\ UNCHANGED <<origin, mirror, nextHid, file, last, runs>>

ScheduledCycle ==
    /\ probe.fn = "settled"
    /\ \E o \in get_todoist_tasks, m \in get_habitica_user_tasks :
          \E r \in SyncSteps(o.tasks, m.tasks, load_processed_state(file)) :
             /\ origin' = ApplyOrigin(origin, r.calls)
             /\ mirror' = ApplyMirror(mirror, r.calls)
             /\ nextHid' = nextHid + r.created
             /\ file' = save_processed_state(r.pt, r.ph)
             /\ last' = CycleRecord(o, m, load_processed_state(file), r)
    /\ probe' = Settled(IF probe.n < QuietAfter THEN probe.n + 1 ELSE probe.n)
    /\ UNCHANGED runs

LiveNext ==
    \/ probe = NoProbe /\ Next
    \/ Settle
    \/ ScheduledCycle

LiveSpec == Init /\ [][LiveNext]_vars /\ WF_vars(ScheduledCycle)

Quiet == last.ran /\ last.calls = <<>>

CycleStep == last' # last /\ last'.ran /\ FetchesOk(last')

\* tid is linked, and in Origin it is active and not due today
Rescheduled(tid) ==
    /\ origin[tid].status = "active" /\ origin[tid].due # "today"
    /\ tid \in MapKeys(last'.map2)

RescheduledHandled(tid) ==
    LET hid == MapGet(last'.map2, tid)
    IN  /\ \E i \in 1..Len(last'.calls) : IsCall(last'.calls[i], "delete", tid, hid)
        /\ \A i \in 1..Len(last'.calls) :
              ~(last'.calls[i].op = "complete" /\ last'.calls[i].hid = hid)
        /\ tid \notin AddedPt(last')
        /\ tid \notin MapKeys(last'.mapEnd)

\* C18.  Rescheduled task is deleted, not completed: in a cycle whose
\* fetches succeed, for every linked Origin task that is active in Origin
\* and not due today, the cycle calls Mirror delete on the mapped Mirror
\* task, does not call Mirror complete on it, does not add the Origin ID to
\* the Origin-processed set and removes the map entry, whether or not other
\* Origin tasks are due today.
C18_RescheduledDeleted ==
    [][CycleStep => \A tid \in DOMAIN origin :
                        Rescheduled(tid) => RescheduledHandled(tid)]_vars
\* ------------------------------------------------- Step 2 on any todo list
\* Step 2 applied alone to the Mirror lists of up to MaxListLen tasks, each
\* a todo or another type, with notes of any of the shapes below; the
\* Mirror service gives every task its own ID (here: its position).
MaxListLen == 3
NoteShapes ==
    { <<>>, <<"x">>,
      <<TAG, "1", RB>>, <<"x", NL, NL, TAG, "1", RB>>, <<TAG, "2", RB>>,
      <<TAG, RB>>, <<TAG, "1">>, <<TAG, "1", RB, NL, NL, TAG, "2", RB>> }
TaskTypes == {"todo", "habit"}
MirrorLists ==
    UNION { [1..n -> [type : TaskTypes, notes : NoteShapes]] : n \in 0..MaxListLen }
AsMirrorList(l) ==
    [i \in 1..Len(l) |-> [id |-> i, type |-> l[i].type, notes |-> l[i].notes,
                          completed |-> FALSE]]

InitReconcile ==
    /\ origin = [t \in TIDs |-> [status |-> "none", due |-> "other"]]
    /\ mirror = <<>>
    /\ nextHid = 0
    /\ file = [kind |-> "absent", pt |-> NoIds, ph |-> NoIds]
    /\ last = NoCycle
    /\ runs = NoRuns
    /\ \E l \in MirrorLists :
          probe = [fn |-> "reconcile", done |-> FALSE, htasks |-> AsMirrorList(l),
                   map |-> EmptyMap, valid |-> {}]

\* lines 298-299 and 363-379: the map starts empty and Step 2 fills it
ReconcileList ==
    /\ ~probe.done
    /\ LET rec == Reconcile(probe.htasks, [map |-> EmptyMap, valid |-> {}])
       IN  probe' = [probe EXCEPT !.done = TRUE, !.map = rec.map, !.valid = rec.valid]
    /\ UNCHANGED <<origin, mirror, nextHid, file, last, runs>>

NextReconcile == ReconcileList

SpecReconcile == InitReconcile /\ [][NextReconcile]_vars

\* the positions of the todos whose notes are tagged with tid; the tag of
\* a note is the one Step 2 reads from it, the first
TaggedWith(htasks, tid) ==
    {i \in 1..Len(htasks) : HasTag(htasks[i]) /\ ParseTag(htasks[i].notes) = tid}
TagsIn(htasks) ==
    {ParseTag(htasks[i].notes) : i \in {j \in 1..Len(htasks) : HasTag(htasks[j])}} \ {NoTid}
LastOf(S) == CHOOSE i \in S : \A j \in S : j <= i

\* C19.  Map reconciliation: after Step 2 no Origin ID is the key of two
\* map entries; for every Origin ID tagged in the notes of at least one
\* Mirror todo, the map value is the ID of a Mirror todo whose notes carry
\* that tag, and it is the last such todo of the list.
C19_MapReconciled ==
    probe.done =>
        /\ \A i, j \in 1..Len(probe.map) :
              probe.map[i].k = probe.map[j].k => i = j
        /\ \A tid \in TagsIn(probe.htasks) :
              /\ tid \in MapKeys(probe.map)
              /\ MapGet(probe.map, tid) \in
                    {probe.htasks[i].id : i \in TaggedWith(probe.htasks, tid)}
              /\ MapGet(probe.map, tid) =
                    probe.htasks[LastOf(TaggedWith(probe.htasks, tid))].id

\* Step 2 has run on a list where two todos carry the same tag and a
\* third task sits between or after them; the later todo is the value.
C19_Witness ==
    /\ probe.done
    /\ Len(probe.htasks) = 3
    /\ \E tid \in TagsIn(probe.htasks) :
          /\ Cardinality(TaggedWith(probe.htasks, tid)) = 2
          /\ MapGet(probe.map, tid) = LastOf(TaggedWith(probe.htasks, tid))
MirrorOpen(c, hid) ==
    \E i \in 1..Len(c.htasks) : c.htasks[i].id = hid /\ ~c.htasks[i].completed

\* a map entry after Step 2 whose Origin task is in the snapshot, not
\* completed and due today, and whose Mirror task is not completed
Steady(c, e) ==
    /\ SnapPending(c, e.k) /\ SnapDueToday(c, e.k)
    /\ MirrorOpen(c, e.v)

\* C21.  Steady state: for every such entry the cycle issues no mutating
\* call that names its Origin ID or its Mirror ID, and the entry is in the
\* map at the end of the cycle.
C21_SteadyState ==
    last.ran =>
        \A e \in Range(last.map2) :
            Steady(last, e) =>
                /\ \A i \in 1..Len(last.calls) :
                      last.calls[i].tid # e.k /\ last.calls[i].hid # e.v
                /\ e \in Range(last.mapEnd)
\* ------------------------------------------- Mirror-driven completion
CloseCalls(c) == {i \in 1..Len(c.calls) : c.calls[i].op = "close"}
ClosedOk(c, tid) == \E i \in CloseCalls(c) : c.calls[i].tid = tid /\ c.calls[i].ok

\* C22.  Mirror-driven completion: for every Origin close call of Step 4,
\* when it succeeds the Origin ID is in the Origin-processed set and the
\* Mirror ID in the Mirror-processed set that the cycle saves, and the
\* Origin ID is not a key of the map when Step 4 ends; when it fails, and
\* no other close of the same Origin ID succeeds in the cycle, the cycle
\* adds neither ID to its processed set and the map entry of the Origin ID
\* is the same when Step 4 ends as when it started.
C22_MirrorDrivenClose ==
    last.ran =>
        \A i \in CloseCalls(last) :
            LET x == last.calls[i]
            IN  IF x.ok
                THEN /\ x.tid \in last.pt
                     /\ x.hid \in last.ph
                     /\ x.tid \notin MapKeys(last.map5)
                ELSE /\ x.hid \notin AddedPh(last)
                     /\ ~ClosedOk(last, x.tid) =>
                           /\ x.tid \notin AddedPt(last)
                           /\ \A e \in Range(last.map4) :
                                 e.k = x.tid => e \in Range(last.map5)

\* One cycle in which a close succeeded for an Origin ID that was in the
\* map, and a close failed for another Origin ID that was in the map.
C22_Witness ==
    /\ last.ran
    /\ \E i, j \in CloseCalls(last) :
          /\ last.calls[i].ok /\ ~last.calls[j].ok
          /\ last.calls[i].tid \in MapKeys(last.map4)
          /\ last.calls[j].tid \in MapKeys(last.map4)
          /\ last.calls[i].tid # last.calls[j].tid
\* ------------------------------------------------- the client-side due filter
\* The due filter and Step 5 applied alone to the lists of up to
\* MaxOriginLen tasks that get_todoist_tasks may return (the unfiltered
\* fallback returns tasks of any due date).  Days are counted from today's
\* date in TIMEZONE.  Task.due.date arrives as a "%Y-%m-%d" string, as a
\* string of another format, as a date, as a datetime, as something else,
\* or the task has no due date.
MaxOriginLen == 2
Today == 0
Days == {Today - 1, Today, Today + 1}
NoDue == [kind |-> "none", day |-> Today]
DueShapes ==
    {NoDue, [kind |-> "other", day |-> Today]}
    \cup [kind : {"str", "timestr", "date", "datetime"}, day : Days]
OriginLists ==
    UNION { [1..n -> [due : DueShapes, is_completed : BOOLEAN]]
            : n \in 0..MaxOriginLen }

\* variant: overdue tasks pass the filter too
DueMatches_orOverdue(due) ==
    due.kind \in {"str", "date"} /\ due.day <= Today
\* lines 333-348: strptime accepts the "%Y-%m-%d" string only; a datetime
\* is an instance of date but never equal to a date
DueMatches(due) ==
    CASE due.kind = "str"      -> due.day = Today
      [] due.kind = "date"     -> due.day = Today
      [] due.kind = "timestr"  -> FALSE
      [] due.kind = "datetime" -> FALSE
      [] OTHER                 -> FALSE

\* the task as Steps 3 to 5 see it
FilteredTask(l, i) ==
    [id |-> TidOrder[i], description |-> Description(TidOrder[i]),
     is_completed |-> l[i].is_completed,
     due |-> IF DueMatches(l[i].due) THEN "today" ELSE "other"]

InitDue ==
    /\ origin = [t \in TIDs |-> [status |-> "none", due |-> "other"]]
    /\ mirror = <<>>
    /\ nextHid = 0
    /\ file = [kind |-> "absent", pt |-> NoIds, ph |-> NoIds]
    /\ last = NoCycle
    /\ runs = NoRuns
    /\ \E l \in OriginLists :
          probe = [fn |-> "due", stage |-> "fetched", raw |-> l,
                   today |-> <<>>, calls |-> <<>>]

\* lines 326-356: todoist_tasks_for_today
FilterDue ==
    /\ probe.stage = "fetched"
    /\ probe' = [probe EXCEPT
          !.stage = "filtered",
          !.today = todoist_tasks_for_today(
                        [i \in 1..Len(probe.raw) |-> FilteredTask(probe.raw, i)])]
    /\ UNCHANGED <<origin, mirror, nextHid, file, last, runs>>

\* lines 473-483: Step 5 while the map is empty
NewTaskSync ==
    /\ probe.stage = "filtered"
    /\ \E s \in Step5(probe.today,
                      [map |-> EmptyMap, calls |-> <<>>, created |-> 0,
                       crashed |-> FALSE]) :
          probe' = [probe EXCEPT !.stage = "synced", !.calls = s.calls]
    /\ UNCHANGED <<origin, mirror, nextHid, file, last, runs>>

NextDue == FilterDue \/ NewTaskSync

SpecDue == InitDue /\ [][NextDue]_vars

DueExactlyToday(due) == due.kind \in {"str", "date"} /\ due.day = Today

\* C24.  Only tasks due exactly today are mirrored: every Mirror create
\* call is for an Origin task of the fetched list whose due date is today's
\* date; a task with an earlier or later due date, or with none, causes no
\* create, whatever else the list holds.
C24_OnlyDueTodayMirrored ==
    \A i \in 1..Len(probe.calls) :
        probe.calls[i].op = "create" =>
            \E j \in 1..Len(probe.raw) :
                /\ TidOrder[j] = probe.calls[i].tid
                /\ DueExactlyToday(probe.raw[j].due)

\* Step 5 created a Mirror task for a task due today while the list also
\* held an open overdue task.
C24_Witness ==
    /\ probe.stage = "synced"
    /\ \E i \in 1..Len(probe.calls) : probe.calls[i].op = "create" /\ probe.calls[i].ok
    /\ \E j \in 1..Len(probe.raw) :
          /\ probe.raw[j].due.kind \in {"str", "date"}
          /\ probe.raw[j].due.day < Today
          /\ ~probe.raw[j].is_completed
\* ------------------------------------------- one cycle, statement by statement
\* perform_single_sync_cycle as the sequence of its accesses to the state
\* file and to the remote services.  probe.pc is the position in the
\* function, probe.log the accesses made since the function was entered.
IoIdle == [fn |-> "io", pc |-> "idle", log |-> <<>>,
           loaded |-> [pt |-> NoIds, ph |-> NoIds],
           tasks |-> <<>>, htasks |-> <<>>, calls |-> <<>>,
           pt |-> NoIds, ph |-> NoIds]
NotInCycle == probe.pc \in {"idle", "done", "returned", "raised"}

InitIo ==
    /\ origin = [t \in TIDs |-> [status |-> "none", due |-> "other"]]
    /\ mirror = <<>>
    /\ nextHid = 0
    /\ file = [kind |-> "absent", pt |-> NoIds, ph |-> NoIds]
    /\ last = NoCycle
    /\ runs = NoRuns
    /\ probe = IoIdle

\* line 300
IoLoad ==
    /\ NotInCycle
    /\ probe' = [IoIdle EXCEPT !.pc = "loaded", !.log = <<"load">>,
                               !.loaded = load_processed_state(file)]
    /\ UNCHANGED <<origin, mirror, nextHid, file, last, runs>>

\* variant: the early return writes the state file
IoReturnsEarly_saves ==
    /\ probe.pc = "loaded"
    /\ file' = save_processed_state(probe.loaded.pt, probe.loaded.ph)
    /\ probe' = [probe EXCEPT !.pc = "returned"]
    /\ UNCHANGED <<origin, mirror, nextHid, last, runs>>
\* lines 302-307: a key is not set in the environment
IoReturnsEarly ==
    /\ probe.pc = "loaded"
    /\ probe' = [probe EXCEPT !.pc = "returned"]
    /\ UNCHANGED <<origin, mirror, nextHid, file, last, runs>>

\* lines 322 and 358
IoFetch ==
    /\ probe.pc = "loaded"
    /\ \E o \in get_todoist_tasks, m \in get_habitica_user_tasks :
          probe' = [probe EXCEPT
                       !.pc = IF m.raised THEN "raised" ELSE "fetched",
                       !.log = @ \o <<"origin fetch", "mirror fetch">>,
                       !.tasks = o.tasks, !.htasks = m.tasks]
    /\ UNCHANGED <<origin, mirror, nextHid, file, last, runs>>

\* line 223: requests.get is called without a timeout, so when the Mirror
\* service accepts the request and never answers, the call does not
\* return; nothing of the function runs after it.  (The other requests,
\* lines 175, 198 and 253, are issued without a timeout as well.)
IoBlocks ==
    /\ probe.pc = "loaded"
    /\ probe' = [probe EXCEPT !.pc = "blocked",
                              !.log = @ \o <<"origin fetch", "mirror fetch">>]
    /\ UNCHANGED <<origin, mirror, nextHid, file, last, runs>>

\* lines 363-483
IoSync ==
    /\ probe.pc = "fetched"
    /\ \E r \in SyncSteps(probe.tasks, probe.htasks, probe.loaded) :
          /\ origin' = ApplyOrigin(origin, r.calls)
          /\ mirror' = ApplyMirror(mirror, r.calls)
          /\ nextHid' = nextHid + r.created
          /\ probe' = [probe EXCEPT
                          !.pc = IF r.crashed THEN "raised" ELSE "synced",
                          !.log = @ \o [i \in 1..Len(r.calls) |-> r.calls[i].op],
                          !.calls = r.calls, !.pt = r.pt, !.ph = r.ph]
    /\ UNCHANGED <<file, last, runs>>

\* line 492
IoSave ==
    /\ probe.pc = "synced"
    /\ file' = save_processed_state(probe.pt, probe.ph)
    /\ probe' = [probe EXCEPT !.pc = "done", !.log = Append(@, "save")]
    /\ UNCHANGED <<origin, mirror, nextHid, last, runs>>

NextIo ==
    \/ IoLoad
    \/ IoReturnsEarly
    \/ IoFetch
    \/ IoBlocks
    \/ IoSync
    \/ IoSave
    \/ NotInCycle /\ \E t \in TIDs, due \in Dues : UserAddsOriginTask(t, due)
    \/ NotInCycle /\ \E t \in TIDs : UserCompletesOriginTask(t)
    \/ NotInCycle /\ \E t \in TIDs : OriginTaskDisappears(t)
    \/ NotInCycle /\ \E i \in HIDs : UserCompletesMirrorTask(i)

SpecIo == InitIo /\ [][NextIo]_vars

Positions(log, ev) == {i \in 1..Len(log) : log[i] = ev}
RemoteAccesses(log) == {i \in 1..Len(log) : log[i] \notin {"load", "save"}}
OkCallTids(calls, ops) ==
    {calls[i].tid : i \in {j \in 1..Len(calls) : calls[j].ok /\ calls[j].op \in ops}}
OkCallHids(calls, ops) ==
    {calls[i].hid : i \in {j \in 1..Len(calls) : calls[j].ok /\ calls[j].op \in ops}}
CompletedHids(htasks) ==
    {htasks[i].id : i \in {j \in 1..Len(htasks) : htasks[j].completed}}

\* C25.  Link Store access pattern: in every cycle that reaches its end,
\* load_processed_state is called exactly once and before every remote
\* access, save_processed_state exactly once and after every remote
\* access, and the sets saved are the sets loaded plus IDs added in the
\* cycle: Origin IDs of successful complete and close calls, Mirror IDs of
\* successful calls and of completed Mirror tasks.
C25_LinkStoreAccess ==
    (probe.fn = "io" /\ probe.pc = "done") =>
        /\ Positions(probe.log, "load") = {1}
        /\ Positions(probe.log, "save") = {Len(probe.log)}
        /\ RemoteAccesses(probe.log) # {}
        /\ file = save_processed_state(probe.pt, probe.ph)
        /\ probe.loaded.pt \subseteq file.pt
        /\ probe.loaded.ph \subseteq file.ph
        /\ file.pt \ probe.loaded.pt
              \subseteq OkCallTids(probe.calls, {"complete", "close"})
        /\ file.ph \ probe.loaded.ph
              \subseteq OkCallHids(probe.calls, {"complete", "delete", "close"})
                        \cup CompletedHids(probe.htasks)

\* A cycle reached its end after it had loaded non-empty sets, issued a
\* successful mutating call and saved larger sets.
C25_Witness ==
    /\ probe.fn = "io" /\ probe.pc = "done"
    /\ probe.loaded.pt # {} /\ probe.loaded.ph # {}
    /\ \E i \in 1..Len(probe.calls) : probe.calls[i].ok
    /\ file.ph # probe.loaded.ph
\* ------------------------------------------------- the order of the steps
\* the step that issues a mutating call
StepOf(x) ==
    CASE x.op \in {"complete", "delete"} -> 3
      [] x.op = "close"                  -> 4
      [] x.op = "create"                 -> 5
CallTids(c, ops) ==
    {c.calls[i].tid : i \in {j \in 1..Len(c.calls) : c.calls[j].op \in ops}}

\* C26.  Mutation steps are serialized in a fixed order over one map:
\* every Step 3 call precedes every Step 4 call, which precedes every
\* Step 5 call; the map Step 4 starts with is the map of Step 2 without the
\* Origin IDs Step 3 acted on, the map Step 5 starts with is that map
\* without the Origin IDs Step 4 closed, and the map at the end is that map
\* with the entries of the Mirror tasks Step 5 created.
C26_SerializedOnOneMap ==
    last.ran =>
        /\ \A i, j \in 1..Len(last.calls) :
              i < j => StepOf(last.calls[i]) <= StepOf(last.calls[j])
        /\ last.map4 = MapDel(last.map2, CallTids(last, {"complete", "delete"}))
        /\ last.map5 = MapDel(last.map4, OkCallTids(last.calls, {"close"}))
        /\ Range(last.mapEnd) =
              Range(last.map5)
              \cup {[k |-> last.calls[i].tid, v |-> last.calls[i].hid]
                    : i \in {j \in 1..Len(last.calls) :
                               last.calls[j].op = "create" /\ last.calls[j].ok}}

\* One cycle issued a Step 3 call, a successful Step 4 close and a
\* successful Step 5 create.
C26_Witness ==
    /\ last.ran
    /\ \E i, j, k \in 1..Len(last.calls) :
          /\ StepOf(last.calls[i]) = 3
          /\ StepOf(last.calls[j]) = 4 /\ last.calls[j].ok
          /\ StepOf(last.calls[k]) = 5 /\ last.calls[k].ok
\* ------------------------------------------------------------ termination
\* C27.  Every cycle terminates: no invocation is ever held in a remote
\* call that does not return (a stalled call is cut off and handled as a
\* failed call, after which the cycle goes on to its end).
C27_EveryCycleTerminates == probe.fn = "io" => probe.pc # "blocked"
\* ------------------------------------------------- cycles without failures
\* The users act and cycles run, and from the start every remote request
\* succeeds and both fetches return the true remote state.
InitReliable ==
    /\ origin = [t \in TIDs |-> [status |-> "none", due |-> "other"]]
    /\ mirror = <<>>
    /\ nextHid = 0
    /\ file = [kind |-> "absent", pt |-> NoIds, ph |-> NoIds]
    /\ last = NoCycle
    /\ runs = NoRuns
    /\ probe = Settled(QuietAfter)

NextReliable ==
    \/ ScheduledCycle
    \/ \E t \in TIDs, due \in Dues : UserAddsOriginTask(t, due)
    \/ \E t \in TIDs, due \in Dues : UserReschedulesOriginTask(t, due)
    \/ \E t \in TIDs : UserCompletesOriginTask(t)
    \/ \E t \in TIDs : UserReopensOriginTask(t)
    \/ \E t \in TIDs : OriginTaskDisappears(t)
    \/ \E i \in HIDs : UserCompletesMirrorTask(i)
    \/ \E i \in HIDs : UserDeletesMirrorTask(i)

SpecReliable == InitReliable /\ [][NextReliable]_vars

\* C28.  No duplicate mirrors: while every remote call succeeds and both
\* fetches return the true remote state, at most one Mirror task carries
\* the tag of any given Origin ID.
C28_NoDuplicateMirrors ==
    \A tid \in TIDs : Cardinality(TaggedWith(mirror, tid)) <= 1
\* ------------------------------------------------- create after close
\* C29.  No create after close in the same cycle: no Mirror create call is
\* issued for an Origin ID for which an Origin close succeeded earlier in
\* the cycle, nor for one that is in the Origin-processed set when Step 5
\* runs (Step 5 leaves that set as Step 4 left it, so it is the set saved).
C29_NoCreateAfterClose ==
    last.ran =>
        \A k \in 1..Len(last.calls) :
            last.calls[k].op = "create" =>
                /\ \A i \in 1..(k - 1) :
                      ~(/\ last.calls[i].op = "close" /\ last.calls[i].ok
                        /\ last.calls[i].tid = last.calls[k].tid)
                /\ last.calls[k].tid \notin last.pt
\* ------------------------------------------- a completion made in Mirror
\* Every remote request succeeds from the start.  The users act and cycles
\* run; at some point the user completes a Mirror task whose tag names an
\* Origin task that is active (probe.owed), and from then on the users
\* change nothing; probe.closed tells whether a cycle has called Origin
\* close on that Origin ID since.
NothingOwed == [fn |-> "settled", owed |-> NoTid, closed |-> FALSE]

InitOwed ==
    /\ origin = [t \in TIDs |-> [status |-> "none", due |-> "other"]]
    /\ mirror = <<>>
    /\ nextHid = 0
    /\ file = [kind |-> "absent", pt |-> NoIds, ph |-> NoIds]
    /\ last = NoCycle
    /\ runs = NoRuns
    /\ probe = NothingOwed

MirrorCompletedWhileActive(i) ==
    /\ probe.owed = NoTid
    /\ i \in 1..Len(mirror)
    /\ ~mirror[i].completed
    /\ HasTag(mirror[i])
    /\ ParseTag(mirror[i].notes) \in TIDs
    /\ origin[ParseTag(mirror[i].notes)].status = "active"
    /\ mirror' = [mirror EXCEPT ![i].completed = TRUE]
    /\ probe' = [probe EXCEPT !.owed = ParseTag(mirror[i].notes)]
    /\ last' = NoCycle
    /\ UNCHANGED <<origin, nextHid, file, runs>>

OwedCycle ==
    /\ \E o \in get_todoist_tasks, m \in get_habitica_user_tasks :
          \E r \in SyncSteps(o.tasks, m.tasks, load_processed_state(file)) :
             /\ origin' = ApplyOrigin(origin, r.calls)
             /\ mirror' = ApplyMirror(mirror, r.calls)
             /\ nextHid' = nextHid + r.created
             /\ file' = save_processed_state(r.pt, r.ph)
             /\ last' = CycleRecord(o, m, load_processed_state(file), r)
             /\ probe' = [probe EXCEPT !.closed =
                             @ \/ \E k \in 1..Len(r.calls) :
                                     /\ r.calls[k].op = "close"
                                     /\ r.calls[k].tid = probe.owed]
    /\ UNCHANGED runs

NextOwed ==
    \/ OwedCycle
    \/ \E i \in HIDs : MirrorCompletedWhileActive(i)
    \/ probe.owed = NoTid /\ \E t \in TIDs, due \in Dues : UserAddsOriginTask(t, due)
    \/ probe.owed = NoTid /\ \E t \in TIDs, due \in Dues : UserReschedulesOriginTask(t, due)
    \/ probe.owed = NoTid /\ \E t \in TIDs : UserCompletesOriginTask(t)
    \/ probe.owed = NoTid /\ \E t \in TIDs : UserReopensOriginTask(t)
    \/ probe.owed = NoTid /\ \E t \in TIDs : OriginTaskDisappears(t)
    \/ probe.owed = NoTid /\ \E i \in HIDs : UserCompletesMirrorTask(i)
    \/ probe.owed = NoTid /\ \E i \in HIDs : UserDeletesMirrorTask(i)

SpecOwed == InitOwed /\ [][NextOwed]_vars

\* the last cycle issued no call and saved the sets it had loaded: every
\* further cycle repeats it, as the users change nothing and the requests
\* have one outcome each
AtRest ==
    /\ last.ran /\ last.calls = <<>>
    /\ last.pt = last.prePt /\ last.ph = last.prePh

\* C30.  Mirror completion eventually reaches Origin: when a Mirror task
\* tagged with T was completed while T was active in Origin and every
\* remote call succeeds, a cycle calls Origin close on T, also when T is
\* already in the Origin-processed set.  Stated for a task T that is due
\* today, which Step 3 leaves alone: when the cycles have come to rest,
\* the close call on T has been made.
C30_MirrorCompletionReachesOrigin ==
    (/\ probe.fn = "settled" /\ probe.owed # NoTid
     /\ origin[probe.owed].due = "today" /\ AtRest) => probe.closed

\* --------------------------------------------- every due task is mirrored
\* C31.  Every due task has an open mirror: at the end of a cycle in which
\* both fetches and every remote call succeeded, each task of the due-today
\* snapshot that is not completed is a key of the map, and the map's value
\* for it is the ID of a Mirror task that is not completed.
C31_DueTaskHasOpenMirror ==
    (last.ran /\ CleanCycle(last)) =>
        \A task \in Range(todoist_tasks_for_today(last.tasks)) :
            ~task.is_completed =>
                \E e \in Range(last.mapEnd) :
                    /\ e.k = task.id
                    /\ \E k \in 1..Len(mirror) :
                          mirror[k].id = e.v /\ ~mirror[k].completed

\* ------------------------------------------------- a failed Origin fetch
\* C32.  A failed Origin fetch is not read as completion: a cycle whose
\* Origin fetch failed, get_todoist_tasks returning the empty list, issues
\* no Mirror complete call and adds no ID to either processed set.
C32_FailedFetchCompletesNothing ==
    (last.ran /\ last.path = "failed") =>
        /\ \A k \in 1..Len(last.calls) : last.calls[k].op # "complete"
        /\ last.pt = last.prePt
        /\ last.ph = last.prePh

\* ------------------------------------------------- a failed Mirror fetch
\* C33.  A failed Mirror fetch creates no duplicates: a cycle whose Mirror
\* fetch failed, get_habitica_user_tasks returning the empty list, issues
\* no Mirror create call for an Origin ID whose tag a Mirror task carried
\* when the cycle started.
C33_FailedFetchCreatesNoDuplicate ==
    [][ (last'.ran /\ last'.mfailed) =>
          \A k \in 1..Len(last'.calls) :
              last'.calls[k].op = "create" =>
                  TaggedWith(mirror, last'.calls[k].tid) = {} ]_vars

\* ------------------------------------------ completion calls of one cycle
\* C34 (as claimed).  At most one completion call per ID per cycle: within
\* one cycle no two Origin close calls name the same Origin ID and no two
\* Mirror complete calls name the same Mirror ID, whatever the Mirror
\* snapshot holds and whichever calls fail.
C34_Original ==
    last.ran =>
        \A i, j \in 1..Len(last.calls) :
            i < j =>
                /\ ~(/\ last.calls[i].op = "close" /\ last.calls[j].op = "close"
                     /\ last.calls[i].tid = last.calls[j].tid)
                /\ ~(/\ last.calls[i].op = "complete" /\ last.calls[j].op = "complete"
                     /\ last.calls[i].hid = last.calls[j].hid)

\* C34 (amended).  Within one cycle no Origin close call names an Origin ID
\* after an Origin close call on that ID succeeded (a close that failed may
\* be repeated for a further Mirror task carrying the same tag), and no two
\* Mirror complete calls name the same Mirror ID, whatever the Mirror
\* snapshot holds and whichever calls fail.
C34_Amended ==
    last.ran =>
        \A i, j \in 1..Len(last.calls) :
            i < j =>
                /\ ~(/\ last.calls[i].op = "close" /\ last.calls[j].op = "close"
                     /\ last.calls[i].tid = last.calls[j].tid
                     /\ last.calls[i].ok)
                /\ ~(/\ last.calls[i].op = "complete" /\ last.calls[j].op = "complete"
                     /\ last.calls[i].hid = last.calls[j].hid)

\* a cycle found two completed Mirror tasks that carry the same tag, neither
\* in the Mirror-processed set, and closed their Origin task with its first
\* close call
C34_Witness ==
    /\ last.ran
    /\ \E i, j \in 1..Len(last.htasks) :
          /\ i < j
          /\ last.htasks[i].completed /\ last.htasks[j].completed
          /\ TagOf(last.htasks[i]) # NoTid
          /\ TagOf(last.htasks[i]) = TagOf(last.htasks[j])
          /\ last.htasks[i].id \notin last.prePh
          /\ last.htasks[j].id \notin last.prePh
          /\ \E k \in 1..Len(last.calls) :
                /\ last.calls[k].op = "close" /\ last.calls[k].ok
                /\ last.calls[k].tid = TagOf(last.htasks[i])
                /\ last.calls[k].hid = last.htasks[i].id

\* ------------------------------------------- re-linking a created mirror
\* C35.  A mirror created in Step 5 is re-linked to its own Origin task:
\* for every Origin ID that is non-empty and holds neither "]" nor the tag
\* prefix, and for every description, one that holds a "[TodoistID:" tag
\* included, Step 2 maps the Mirror task whose notes are the description
\* followed by the ID's tag to that ID and to no other.
C35_CreatedMirrorRelinked ==
    ( /\ probe.fn = "tag" /\ probe.stage = "parsed"
      /\ probe.id # <<>> /\ ~Contains(probe.id, RB) /\ ~Contains(probe.id, TAG) ) =>
        probe.out = probe.id
\* ---------------------------------------------------- missing credentials
\* C36.  Missing credentials leave everything unchanged: an invocation that
\* finds the Origin API key or a Mirror credential unset returns having
\* issued no remote call and without writing the Link Store; the persisted
\* processed sets, and both services, are as they were.
C36_MissingCredentialsChangeNothing ==
    [][ (probe.fn = "io" /\ probe.pc = "loaded" /\ probe'.pc = "returned") =>
          /\ probe'.log = <<"load">>
          /\ probe'.calls = <<>>
          /\ file' = file
          /\ origin' = origin /\ mirror' = mirror ]_vars

\* an invocation returned early while the state file held processed IDs
C36_Witness ==
    /\ probe.fn = "io" /\ probe.pc = "returned"
    /\ file.kind = "ok" /\ file.pt # NoIds /\ file.ph # NoIds
\* ------------------------------------------------ processed IDs in pairs
\* C37.  Processed IDs are added in linked pairs: every Origin ID that a
\* cycle adds to the Origin-processed set is named by a successful Mirror
\* complete or Origin close call of the cycle whose Mirror ID, the one the
\* map or the tag links to it, is in the Mirror-processed set the cycle
\* saves.
C37_AddedInLinkedPairs ==
    last.ran =>
        \A t \in AddedPt(last) :
            \E k \in 1..Len(last.calls) :
                /\ last.calls[k].ok
                /\ last.calls[k].op \in {"complete", "close"}
                /\ last.calls[k].tid = t
                /\ TidOfHid(last, last.calls[k].hid) = t
                /\ last.calls[k].hid \in last.ph

\* a cycle added an Origin ID in Step 3 and another in Step 4, each with
\* its Mirror ID
C37_Witness ==
    /\ last.ran
    /\ \E i, j \in 1..Len(last.calls) :
          /\ last.calls[i].op = "complete" /\ last.calls[i].ok
          /\ last.calls[j].op = "close" /\ last.calls[j].ok
          /\ {last.calls[i].tid, last.calls[j].tid} \subseteq AddedPt(last)
          /\ {last.calls[i].hid, last.calls[j].hid} \subseteq AddedPh(last)
\* ------------------------------------------------ the backend task store
\* src/backend/app.py: the Task table behind POST /api/tasks and
\* PATCH /api/tasks/<id>.  probe.store is the table (row i has id i, no
\* route deletes a row), probe.req the last request, probe.status its
\* answer and probe.before the table when the request arrived.
MaxTasks == 2
ValidTaskTypes == {"todo", "daily", "habit"}
ValidDifficulties == {"easy", "medium", "hard"}
\* a key that the JSON object does not hold
Absent == "absent"
\* request.get_json() gave None
NoBody == [json |-> "null"]
PostBodies ==
    {NoBody} \cup
    { [json |-> "object", title |-> t, task_type |-> ty, difficulty |-> d] :
        t \in {Absent, "null", "t"},
        ty \in ValidTaskTypes \cup {Absent, "null", "bogus"},
        d \in ValidDifficulties \cup {Absent, "null", "bogus"} }
    \cup
    \* a JSON array: title = "element" when the string 'title' is one of
    \* its elements, Absent when it is not (the empty array included)
    { [json |-> "array", title |-> t, task_type |-> Absent, difficulty |-> Absent] :
        t \in {Absent, "element"} }
PatchBodies ==
    {NoBody} \cup
    { [json |-> "object", is_completed |-> c, task_type |-> ty, difficulty |-> d] :
        c \in {Absent, "true", "false", "yes"},
        ty \in {Absent, "bogus"},
        d \in {Absent, "bogus"} }

Task(id, title, task_type, difficulty) ==
    [id |-> id, title |-> title, task_type |-> task_type,
     difficulty |-> difficulty, is_completed |-> FALSE]

\* POST /api/tasks.  An empty object or array is falsy, like None; for an
\* array that holds 'title' the test of line 58 passes and data.get (line
\* 61) raises AttributeError (500); a null title passes the checks and
\* fails the NOT NULL column at commit (500).
create_task(store, data) ==
    IF data.json = "null" \/ data.title = Absent
    THEN [status |-> 400, store |-> store]
    ELSE IF data.json = "array"
    THEN [status |-> 500, store |-> store]
    ELSE LET task_type  == IF data.task_type = Absent THEN "todo" ELSE data.task_type
             difficulty == IF data.difficulty = Absent THEN "medium" ELSE data.difficulty
         IN  IF task_type \notin ValidTaskTypes
             THEN [status |-> 400, store |-> store]
             ELSE IF difficulty \notin ValidDifficulties
             THEN [status |-> 400, store |-> store]
             ELSE IF data.title = "null"
             THEN [status |-> 500, store |-> store]
             ELSE [status |-> 201,
                   store  |-> Append(store, Task(Len(store) + 1, data.title,
                                                 task_type, difficulty))]

\* PATCH /api/tasks/<id>.  With a None body "'is_completed' in data"
\* raises TypeError (500); is_completed is taken only when it is a bool.
update_task(store, task_id, data) ==
    IF task_id \notin 1..Len(store)
    THEN [status |-> 404, store |-> store]
    ELSE IF data.json = "null"
    THEN [status |-> 500, store |-> store]
    ELSE IF data.is_completed \in {"true", "false"}
    THEN [status |-> 200,
          store  |-> [store EXCEPT ![task_id].is_completed =
                                       (data.is_completed = "true")]]
    ELSE [status |-> 200, store |-> store]

InitBackend ==
    /\ origin = [t \in TIDs |-> [status |-> "none", due |-> "other"]]
    /\ mirror = <<>>
    /\ nextHid = 0
    /\ file = [kind |-> "absent", pt |-> NoIds, ph |-> NoIds]
    /\ last = NoCycle
    /\ runs = NoRuns
    /\ probe = [fn |-> "backend", store |-> <<>>, before |-> <<>>,
                req |-> [method |-> "none", id |-> 0, data |-> NoBody],
                status |-> 0]

PostTask(data) ==
    /\ probe.fn = "backend"
    /\ LET r == create_task(probe.store, data)
       IN  /\ Len(r.store) <= MaxTasks
           /\ probe' = [probe EXCEPT !.store = r.store, !.before = probe.store,
                                     !.req = [method |-> "POST", id |-> 0,
                                              data |-> data],
                                     !.status = r.status]
    /\ UNCHANGED <<origin, mirror, nextHid, file, last, runs>>

PatchTask(task_id, data) ==
    /\ probe.fn = "backend"
    /\ LET r == update_task(probe.store, task_id, data)
       IN  probe' = [probe EXCEPT !.store = r.store, !.before = probe.store,
                                  !.req = [method |-> "PATCH", id |-> task_id,
                                           data |-> data],
                                  !.status = r.status]
    /\ UNCHANGED <<origin, mirror, nextHid, file, last, runs>>

NextBackend ==
    \/ \E data \in PostBodies : PostTask(data)
    \/ \E task_id \in 1..(MaxTasks + 1), data \in PatchBodies :
          PatchTask(task_id, data)

SpecBackend == InitBackend /\ [][NextBackend]_vars

\* C38.  Backend task store invariant: after any sequence of POST
\* /api/tasks and PATCH /api/tasks/<id> requests every stored task has
\* task_type in {todo, daily, habit} and difficulty in {easy, medium,
\* hard}; a POST with a missing title or an invalid task_type or
\* difficulty is answered 400 and stores nothing; a PATCH changes nothing
\* but is_completed.
C38_TaskStoreInvariant ==
    probe.fn = "backend" =>
        /\ \A i \in 1..Len(probe.store) :
              /\ probe.store[i].task_type \in ValidTaskTypes
              /\ probe.store[i].difficulty \in ValidDifficulties
        /\ ( /\ probe.req.method = "POST"
             /\ \/ probe.req.data.json \in {"null", "array"}
                \/ probe.req.data.title = Absent
                \/ probe.req.data.task_type \notin ValidTaskTypes \cup {Absent}
                \/ probe.req.data.difficulty \notin ValidDifficulties \cup {Absent} )
           => (probe.status = 400 /\ probe.store = probe.before)
        /\ probe.req.method = "PATCH" =>
              /\ Len(probe.store) = Len(probe.before)
              /\ \A i \in 1..Len(probe.store) :
                    [probe.store[i] EXCEPT !.is_completed =
                                               probe.before[i].is_completed]
                        = probe.before[i]
====
